---- MODULE Spec2Model ----
(***************************************************************************)
(* Lagos State Property Portal: the role-based authorization and          *)
(* status-transition behaviour of the REST handlers (property             *)
(* verification, KYC review, payments and invoices), modelled as a state  *)
(* machine over the relational store.  One action is one HTTP request,    *)
(* handled to completion; resp is the response it was answered with.      *)
(* The last part handles verify_payment and the KYC review write by       *)
(* write, for requests that overlap or are cut short; inflight holds      *)
(* those requests.                                                         *)
(***************************************************************************)
EXTENDS Integers, FiniteSets, Sequences, TLC

VARIABLES users, nextUserId, props, kyc, payments, nextPaymentId, invoices,
          txns, now, resp, inflight, leads, messages, compliance, checks, subs

userVars == <<users, nextUserId, kyc>>
propVars == <<props, leads, messages, compliance, checks>>
payVars  == <<payments, nextPaymentId, invoices, txns, subs>>
vars == <<users, nextUserId, props, kyc, payments, nextPaymentId, invoices,
          txns, now, resp, inflight, leads, messages, compliance, checks, subs>>

(* ------------------------------ bounds -------------------------------- *)
\* user ids the store hands out (fixture users plus registrations)
MaxUsers == 5
\* properties in the fixture
MaxProps == 1
\* invoices in the fixture
MaxInvoices == 1
\* payments ever created (the primary keys handed out)
MaxPayments == 2
\* the clock runs from 1 to MaxTime
MaxTime == 2
\* verification Transaction rows recorded per payment
MaxTxns == 2
\* requests handled step by step, possibly at the same time
MaxRequests == 2
\* leads in the store
MaxLeads == 2
\* messages in the store
MaxMessages == 1
\* requirement checks in the store
MaxChecks == 2

(* ----------------------------- constants ------------------------------ *)
\* a NULL foreign key or timestamp
Null == 0
\* the caller of an unauthenticated request (request.user.is_authenticated is false)
Anon == -1

ADMIN == "admin"
GOVERNMENT == "government"
REAL_ESTATE_FIRM == "real_estate_firm"
PROPERTY_OWNER == "property_owner"
BUYER_RENTER == "buyer_renter"
Roles == {ADMIN, GOVERNMENT, REAL_ESTATE_FIRM, PROPERTY_OWNER, BUYER_RENTER}

\* Property.verification_status
PENDING == "pending"
VERIFIED == "verified"
REJECTED == "rejected"
\* KYCVerification.status
APPROVED == "approved"
\* Payment.status / Invoice.status
COMPLETED == "completed"
FAILED == "failed"
REFUNDED == "refunded"
PAID == "paid"
OVERDUE == "overdue"
CANCELLED == "cancelled"

\* Lead.status (NEW is a reserved word here)
NEW_LEAD == "new"
CONTACTED == "contacted"
QUALIFIED == "qualified"
LOST == "lost"
CONVERTED == "converted"
LeadStatuses == {NEW_LEAD, CONTACTED, QUALIFIED, LOST, CONVERTED}

\* a field the request body does not carry
Absent == "absent"
\* an empty (or null) rejection reason, and the non-empty ones requests carry
NoReason == ""
Reasons == {"incomplete"}
\* the blank address of a new user, and the addresses profile updates carry
NoAddress == ""
Addresses == {NoAddress, "Ikeja"}

\* responses
OK == "ok"
CREATED == "created"
NO_CONTENT == "no_content"
BAD_REQUEST == "bad_request"
UNAUTHORIZED == "unauthorized"
FORBIDDEN == "forbidden"
NOT_FOUND == "not_found"
SERVER_ERROR == "server_error"

(* ------------------------------ helpers ------------------------------- *)
Remove(f, S) == [x \in (DOMAIN f) \ S |-> f[x]]

\* the callers of a request: the stored users and the unauthenticated caller
Actors == (DOMAIN users) \cup {Anon}

IsAuthenticated(a) == a \in DOMAIN users
is_admin(a) == users[a].role = ADMIN
is_government(a) == users[a].role = GOVERNMENT

\* permissions.IsAdmin, IsGovernmentAgency, IsVerifiedUser, IsPropertyOwnerOrRealEstateFirm
IsAdmin(a) == IsAuthenticated(a) /\ is_admin(a)
IsGovernmentAgency(a) == IsAuthenticated(a) /\ is_government(a)
IsVerifiedUser(a) == IsAuthenticated(a) /\ users[a].is_verified
IsPropertyOwnerOrRealEstateFirm(a) ==
    IsAuthenticated(a) /\ users[a].role \in {PROPERTY_OWNER, REAL_ESTATE_FIRM}

\* the response to a request refused by has_permission
Denied(a) == IF IsAuthenticated(a) THEN FORBIDDEN ELSE UNAUTHORIZED

\* permissions.IsOwnerOrAdmin.has_object_permission, for an object with an owner field
\* (evaluated for authenticated callers only: AnonymousUser has no is_admin)
IsOwnerOrAdmin(a, owner) == is_admin(a) \/ owner = a

(* --------------------------- initial state ---------------------------- *)
\* the fixture users: one per role the handlers distinguish
FixtureUser(role, staff, verified) ==
    [role |-> role, is_staff |-> staff, is_verified |-> verified,
     address |-> NoAddress]

Property0(owner) ==
    [owner |-> owner, verification_status |-> PENDING, rejection_reason |-> NoReason,
     verified_by |-> Null, verified_at |-> Null, is_active |-> TRUE]

\* the users of the tests' setUp: an admin (create_superuser), a government user,
\* a property owner and a buyer, the last two verified or not (seed_data.py
\* creates its users verified, the tests unverified)
UsersFixture(vo, vb) ==
    (1 :> FixtureUser(ADMIN, TRUE, FALSE)) @@
    (2 :> FixtureUser(GOVERNMENT, FALSE, FALSE)) @@
    (3 :> FixtureUser(PROPERTY_OWNER, FALSE, vo)) @@
    (4 :> FixtureUser(BUYER_RENTER, FALSE, vb))

InitUsers ==
    /\ \E vo, vb \in BOOLEAN : users = UsersFixture(vo, vb)
    /\ nextUserId = 5
    /\ kyc = << >>

InitProps == props = [p \in 1..MaxProps |-> Property0(3)]

InitPayEmpty ==
    /\ payments = << >>
    /\ nextPaymentId = 1
    /\ invoices = << >>
    /\ txns = << >>

InitResp == resp = "none"

\* no message, compliance record, requirement check or subscription yet
InitMore ==
    /\ messages = << >>
    /\ compliance = << >>
    /\ checks = << >>
    /\ subs = << >>

(* ------------------------ cascades of deletion ------------------------ *)
\* rows removed with a set of properties and users (on_delete=CASCADE), and the
\* references nulled (on_delete=SET_NULL)
DeadPayments(ps, us) ==
    {x \in DOMAIN payments :
        payments[x].property \in ps \/ payments[x].payer \in us \/ payments[x].receiver \in us}

DeadLeads(ps, us) ==
    {l \in DOMAIN leads : leads[l].property \in ps \/ leads[l].user \in us}

DeadInvoices(ps, us) ==
    {i \in DOMAIN invoices : invoices[i].property \in ps \/ invoices[i].user \in us}

\* Subscription.user, and Subscription.payment_plan -> PaymentPlan.property
DeadSubscriptions(ps, us) ==
    {s \in DOMAIN subs : subs[s].property \in ps \/ subs[s].user \in us}

CascadePay(ps, us) ==
    /\ payments' = Remove(payments, DeadPayments(ps, us))
    /\ txns' = Remove(txns, DeadPayments(ps, us))
    /\ invoices' = [i \in (DOMAIN invoices) \ DeadInvoices(ps, us) |->
                      IF invoices[i].payment \in DeadPayments(ps, us)
                      THEN [invoices[i] EXCEPT !.payment = Null]
                      ELSE invoices[i]]
    /\ subs' = Remove(subs, DeadSubscriptions(ps, us))
    /\ UNCHANGED nextPaymentId

\* Message.lead / sender / receiver, and the compliance records of a property
\* with their requirement checks
DeadMessages(ls, us) ==
    {m \in DOMAIN messages :
        messages[m].lead \in ls \/ messages[m].sender \in us \/ messages[m].receiver \in us}

DeadCompliance(ps) == {c \in DOMAIN compliance : compliance[c].property \in ps}

DeadChecks(cs) == {k \in DOMAIN checks : checks[k].property_compliance \in cs}

CascadeMore(ps, us) ==
    /\ messages' = Remove(messages, DeadMessages(DeadLeads(ps, us), us))
    /\ compliance' = Remove(compliance, DeadCompliance(ps))
    /\ checks' = Remove(checks, DeadChecks(DeadCompliance(ps)))

(* ------------------------- property handlers -------------------------- *)
\* PropertyViewSet.queryset: only active properties are addressable
PropertyQueryset == {p \in DOMAIN props : props[p].is_active}

PropIds == 1..MaxProps

\* POST /properties/ : the permission check, the serializer's validation, then
\* perform_create -> serializer.save(owner=...) -> create(), which passes owner twice
PropertyCreate(a, valid) ==
    /\ resp' = IF ~(IsPropertyOwnerOrRealEstateFirm(a) /\ IsVerifiedUser(a)) THEN Denied(a)
               ELSE IF ~valid THEN BAD_REQUEST
               ELSE SERVER_ERROR
    /\ UNCHANGED <<userVars, propVars, payVars, now, inflight>>

\* PropertyDetailSerializer.update: the writable fields are written, the
\* read-only ones (verification_status, rejection_reason, verified_by,
\* verified_at, owner) are dropped from the validated data
PropertyDetailUpdate(instance, active) == [instance EXCEPT !.is_active = active]

\* PUT/PATCH /properties/{p}/ carrying is_active and (an attempt at) verification_status
PropertyUpdate(a, p, active, vstatus, valid) ==
    /\ IF p \notin PropertyQueryset
       THEN resp' = NOT_FOUND /\ UNCHANGED props
       ELSE IF ~IsAuthenticated(a)
       THEN resp' = SERVER_ERROR /\ UNCHANGED props
       ELSE IF ~IsOwnerOrAdmin(a, props[p].owner)
       THEN resp' = FORBIDDEN /\ UNCHANGED props
       ELSE IF ~valid
       THEN resp' = BAD_REQUEST /\ UNCHANGED props
       ELSE /\ resp' = OK
            /\ props' = [props EXCEPT ![p] = PropertyDetailUpdate(props[p], active)]
    /\ UNCHANGED <<userVars, payVars, now, inflight, leads, messages, compliance, checks>>

\* DELETE /properties/{p}/
PropertyDestroy(a, p) ==
    /\ IF p \notin PropertyQueryset
       THEN resp' = NOT_FOUND /\ UNCHANGED <<propVars, payVars>>
       ELSE IF ~IsAuthenticated(a)
       THEN resp' = SERVER_ERROR /\ UNCHANGED <<propVars, payVars>>
       ELSE IF ~IsOwnerOrAdmin(a, props[p].owner)
       THEN resp' = FORBIDDEN /\ UNCHANGED <<propVars, payVars>>
       ELSE /\ resp' = NO_CONTENT
            /\ props' = Remove(props, {p})
            /\ leads' = Remove(leads, DeadLeads({p}, {}))
            /\ CascadeMore({p}, {})
            /\ CascadePay({p}, {})
    /\ UNCHANGED <<userVars, now, inflight>>

\* GET /properties/ : no permission class, the rows of the viewset's queryset
PropertyListing(a) == PropertyQueryset

PropertyList(a) ==
    /\ resp' = OK
    /\ UNCHANGED <<userVars, propVars, payVars, now, inflight>>

\* GET /properties/{p}/ : no permission class
PropertyRetrieve(a, p) ==
    /\ resp' = IF p \in PropertyQueryset THEN OK ELSE NOT_FOUND
    /\ UNCHANGED <<userVars, propVars, payVars, now, inflight>>

\* a validate() that lets a rejection through without its reason
PropertyVerificationValidate_NoReasonCheck(vstatus, reason) == TRUE

\* PropertyVerificationSerializer.validate
PropertyVerificationValidate(vstatus, reason) ==
    ~(vstatus = REJECTED /\ reason = NoReason)

\* an update() that keeps the old rejection reason when it verifies
PropertyVerificationUpdate_KeepsReason(instance, vstatus, reason, a) ==
    IF vstatus = REJECTED
    THEN [instance EXCEPT !.verification_status = vstatus, !.rejection_reason = reason]
    ELSE IF vstatus = VERIFIED
    THEN [instance EXCEPT !.verification_status = vstatus, !.verified_by = a,
                          !.verified_at = now]
    ELSE [instance EXCEPT !.verification_status = vstatus]

\* PropertyVerificationSerializer.update, before instance.save()
PropertyVerificationUpdate(instance, vstatus, reason, a) ==
    IF vstatus = REJECTED
    THEN [instance EXCEPT !.verification_status = vstatus, !.rejection_reason = reason]
    ELSE IF vstatus = VERIFIED
    THEN [instance EXCEPT !.verification_status = vstatus, !.verified_by = a,
                          !.verified_at = now, !.rejection_reason = NoReason]
    ELSE [instance EXCEPT !.verification_status = vstatus]

\* PATCH /properties/{p}/verify/ : an absent verification_status reaches save()
\* as None and the NOT NULL column refuses it
PropertyVerify(a, p, vstatus, reason) ==
    /\ IF ~(IsAdmin(a) \/ IsGovernmentAgency(a))
       THEN resp' = Denied(a) /\ UNCHANGED props
       ELSE IF p \notin PropertyQueryset
       THEN resp' = NOT_FOUND /\ UNCHANGED props
       ELSE IF ~PropertyVerificationValidate(vstatus, reason)
       THEN resp' = BAD_REQUEST /\ UNCHANGED props
       ELSE IF vstatus = Absent
       THEN resp' = SERVER_ERROR /\ UNCHANGED props
       ELSE /\ resp' = OK
            /\ props' = [props EXCEPT ![p] = PropertyVerificationUpdate(props[p], vstatus, reason, a)]
    /\ UNCHANGED <<userVars, payVars, now, inflight, leads, messages, compliance, checks>>

(* --------------------------- user handlers ---------------------------- *)
\* DELETE /users/{u}/ : Property.owner, KYCVerification.user, Payment.payer/receiver,
\* Lead.user and Invoice.user cascade; Property.verified_by, KYCVerification.verified_by
\* and Invoice.payment are set to NULL
UserDestroy(a, u) ==
    /\ IF ~IsAdmin(a)
       THEN resp' = Denied(a) /\ UNCHANGED <<users, kyc, propVars, payVars>>
       ELSE IF u \notin DOMAIN users
       THEN resp' = NOT_FOUND /\ UNCHANGED <<users, kyc, propVars, payVars>>
       ELSE /\ resp' = NO_CONTENT
            /\ users' = Remove(users, {u})
            /\ kyc' = [k \in (DOMAIN kyc) \ {u} |->
                         IF kyc[k].verified_by = u
                         THEN [kyc[k] EXCEPT !.verified_by = Null] ELSE kyc[k]]
            /\ LET dead == {p \in DOMAIN props : props[p].owner = u} IN
                 /\ props' = [p \in (DOMAIN props) \ dead |->
                                IF props[p].verified_by = u
                                THEN [props[p] EXCEPT !.verified_by = Null] ELSE props[p]]
                 /\ leads' = Remove(leads, DeadLeads(dead, {u}))
                 /\ CascadeMore(dead, {u})
                 /\ CascadePay(dead, {u})
    /\ UNCHANGED <<nextUserId, now, inflight>>

\* POST /users/ (AllowAny): UserSerializer.create -> create_user with the role
\* the body names; is_staff and is_verified keep their defaults
UserRegister(role, valid) ==
    /\ nextUserId <= MaxUsers
    /\ IF ~valid
       THEN resp' = BAD_REQUEST /\ UNCHANGED <<users, nextUserId>>
       ELSE /\ resp' = CREATED
            /\ users' = users @@ (nextUserId :> FixtureUser(role, FALSE, FALSE))
            /\ nextUserId' = nextUserId + 1
    /\ UNCHANGED <<kyc, propVars, payVars, now, inflight>>

\* PUT/PATCH /users/{u}/ : the permission is IsAuthenticated and the queryset
\* is every user; UserUpdateSerializer writes first_name, last_name,
\* phone_number, address and profile_picture, of which the address is modelled
UserUpdate(a, u, valid, address) ==
    /\ IF ~IsAuthenticated(a)
       THEN resp' = UNAUTHORIZED /\ UNCHANGED users
       ELSE IF u \notin DOMAIN users
       THEN resp' = NOT_FOUND /\ UNCHANGED users
       ELSE IF ~valid
       THEN resp' = BAD_REQUEST /\ UNCHANGED users
       ELSE /\ resp' = OK
            /\ users' = [users EXCEPT ![u].address = address]
    /\ UNCHANGED <<nextUserId, kyc, propVars, payVars, now, inflight>>

\* POST /users/change_password/ : only the password hash is written
ChangePassword(a, valid, old_ok) ==
    /\ resp' = IF ~IsAuthenticated(a) THEN UNAUTHORIZED
               ELSE IF ~valid \/ ~old_ok THEN BAD_REQUEST
               ELSE OK
    /\ UNCHANGED <<userVars, propVars, payVars, now, inflight>>

(* ---------------------------- KYC handlers ---------------------------- *)
KYC0 == [status |-> PENDING, rejection_reason |-> NoReason,
         verified_by |-> Null, verified_at |-> Null]

\* a get_queryset() that gives every caller every record
KYCQueryset_Everyone(a) == DOMAIN kyc

\* KYCVerificationViewSet.get_queryset: the record of user k as caller a sees it
KYCQueryset(a) ==
    IF is_admin(a) \/ is_government(a) THEN DOMAIN kyc ELSE (DOMAIN kyc) \cap {a}

\* KYCSubmissionSerializer.validate: complete says the body carries the documents
KYCSubmissionValidate(a, complete) ==
    users[a].role \in {PROPERTY_OWNER, BUYER_RENTER, REAL_ESTATE_FIRM} => complete

\* a submit() that also withdraws the verification of the submitting user
KYCSubmitUser_Unverifies(u) == [u EXCEPT !.is_verified = FALSE]

\* the user row submit() saves: the six KYC document fields only
KYCSubmitUser(u) == u

\* POST /kyc/submit/ : get_or_create, and an existing record is reset to PENDING
KYCSubmit(a, complete) ==
    /\ IF ~IsAuthenticated(a)
       THEN resp' = UNAUTHORIZED /\ UNCHANGED <<users, kyc>>
       ELSE IF ~KYCSubmissionValidate(a, complete)
       THEN resp' = BAD_REQUEST /\ UNCHANGED <<users, kyc>>
       ELSE /\ resp' = OK
            /\ users' = [users EXCEPT ![a] = KYCSubmitUser(users[a])]
            /\ kyc' = IF a \in DOMAIN kyc THEN [kyc EXCEPT ![a] = KYC0]
                      ELSE kyc @@ (a :> KYC0)
    /\ UNCHANGED <<nextUserId, propVars, payVars, now, inflight>>

\* POST /kyc/ : KYCVerificationSerializer has user read-only and perform_create
\* supplies none, so the INSERT has no user_id
KYCCreate(a) ==
    /\ resp' = IF ~IsAuthenticated(a) THEN UNAUTHORIZED ELSE SERVER_ERROR
    /\ UNCHANGED <<userVars, propVars, payVars, now, inflight>>

\* KYCVerificationUpdateSerializer.validate
KYCUpdateValidate(status, reason) == ~(status = REJECTED /\ reason = NoReason)

\* KYCVerificationUpdateSerializer.update: whether it returns. APPROVED evaluates
\* serializers.DateTimeField().get_default(), which raises SkipField for a field
\* without a default, before anything is saved; an absent status is refused by
\* the NOT NULL column when the record is saved
KYCUpdateReturns(status) == status \in {PENDING, REJECTED}

\* KYCVerificationUpdateSerializer.update: the record and the owning user as
\* assigned when update() reaches its two save() calls (the APPROVED branch
\* raises while computing verified_at, after assigning verified_by)
KYCUpdateRecord(instance, status, reason, a) ==
    IF status = REJECTED
    THEN [instance EXCEPT !.status = status, !.rejection_reason = reason]
    ELSE IF status = APPROVED
    THEN [instance EXCEPT !.status = status, !.verified_by = a]
    ELSE [instance EXCEPT !.status = status]

KYCUpdateUser(u, status) ==
    IF status = REJECTED THEN [u EXCEPT !.is_verified = FALSE]
    ELSE IF status = APPROVED THEN [u EXCEPT !.is_verified = TRUE]
    ELSE u

\* PUT/PATCH /kyc/{k}/ (the record of user k)
KYCUpdate(a, k, status, reason) ==
    /\ IF ~(IsAdmin(a) \/ IsGovernmentAgency(a))
       THEN resp' = Denied(a) /\ UNCHANGED <<users, kyc>>
       ELSE IF k \notin KYCQueryset(a)
       THEN resp' = NOT_FOUND /\ UNCHANGED <<users, kyc>>
       ELSE IF ~KYCUpdateValidate(status, reason)
       THEN resp' = BAD_REQUEST /\ UNCHANGED <<users, kyc>>
       ELSE IF ~KYCUpdateReturns(status)
       THEN resp' = SERVER_ERROR /\ UNCHANGED <<users, kyc>>
       ELSE /\ resp' = OK
            /\ users' = [users EXCEPT ![k] = KYCUpdateUser(users[k], status)]
            /\ kyc' = [kyc EXCEPT ![k] = KYCUpdateRecord(kyc[k], status, reason, a)]
    /\ UNCHANGED <<nextUserId, propVars, payVars, now, inflight>>

\* DELETE /kyc/{k}/ : any authenticated caller, within the caller's queryset
KYCDestroy(a, k) ==
    /\ IF ~IsAuthenticated(a)
       THEN resp' = UNAUTHORIZED /\ UNCHANGED kyc
       ELSE IF k \notin KYCQueryset(a)
       THEN resp' = NOT_FOUND /\ UNCHANGED kyc
       ELSE resp' = NO_CONTENT /\ kyc' = Remove(kyc, {k})
    /\ UNCHANGED <<users, nextUserId, propVars, payVars, now, inflight>>

\* GET /kyc/ : admin or government only
KYCList(a) ==
    /\ resp' = IF ~(IsAdmin(a) \/ IsGovernmentAgency(a)) THEN Denied(a) ELSE OK
    /\ UNCHANGED <<userVars, propVars, payVars, now, inflight>>

\* GET /kyc/{k}/ : any authenticated caller, within the caller's queryset
KYCRetrieve(a, k) ==
    /\ resp' = IF ~IsAuthenticated(a) THEN UNAUTHORIZED
               ELSE IF k \notin KYCQueryset(a) THEN NOT_FOUND
               ELSE OK
    /\ UNCHANGED <<userVars, propVars, payVars, now, inflight>>

\* GET /kyc/pending/ : the handler itself refuses whoever is not admin or government
KYCPending(a) ==
    /\ resp' = IF ~IsAuthenticated(a) THEN UNAUTHORIZED
               ELSE IF ~(is_admin(a) \/ is_government(a)) THEN FORBIDDEN
               ELSE OK
    /\ UNCHANGED <<userVars, propVars, payVars, now, inflight>>

(* ------------------------ property verification ----------------------- *)
\* the clock stands still here: verified_at is stamped with the one value of now
InitProperty == InitUsers /\ InitProps /\ InitPayEmpty /\ InitResp /\ now = 1 /\ inflight = << >> /\ leads = << >> /\ InitMore

\* the bodies of the requests: an invalid body carries nothing else of interest
VerificationInputs == {Absent, PENDING, VERIFIED, REJECTED}
ReasonInputs == {NoReason} \cup Reasons

NextProperty ==
    \/ \E a \in Actors, valid \in BOOLEAN : PropertyCreate(a, valid)
    \/ \E a \in Actors, p \in PropIds, active \in BOOLEAN,
          vstatus \in {Absent, VERIFIED, REJECTED}, valid \in BOOLEAN :
          /\ valid \/ (active /\ vstatus = Absent)
          /\ PropertyUpdate(a, p, active, vstatus, valid)
    \/ \E a \in Actors, p \in PropIds : PropertyDestroy(a, p)
    \/ \E a \in Actors, p \in PropIds, vstatus \in VerificationInputs,
          reason \in ReasonInputs : PropertyVerify(a, p, vstatus, reason)
    \/ \E a \in Actors, u \in 1..MaxUsers : UserDestroy(a, u)
    \/ \E a \in Actors : PropertyList(a)
    \/ \E a \in Actors, p \in PropIds : PropertyRetrieve(a, p)

SpecProperty == InitProperty /\ [][NextProperty]_vars

(* ----------------------------- KYC review ----------------------------- *)
\* KYCVerificationTests.setUp: an admin, a government user and a buyer, who
\* starts verified as the users of seed_data.create_users do; no KYC record yet
InitKYC ==
    /\ users = Remove(UsersFixture(FALSE, TRUE), {3})
    /\ nextUserId = 5
    /\ kyc = << >>
    /\ props = << >>
    /\ InitPayEmpty /\ InitResp /\ now = 1 /\ inflight = << >> /\ leads = << >> /\ InitMore

KYCStatusInputs == {Absent, PENDING, APPROVED, REJECTED}
RegisterRoles == {BUYER_RENTER}

\* update() reads rejection_reason only when the status is REJECTED
NextKYC ==
    \/ \E role \in RegisterRoles, valid \in BOOLEAN : UserRegister(role, valid)
    \/ \E a \in Actors, u \in 1..MaxUsers, valid \in BOOLEAN :
          UserUpdate(a, u, valid, NoAddress)
    \/ \E a \in Actors, valid, old_ok \in BOOLEAN :
          (valid \/ old_ok) /\ ChangePassword(a, valid, old_ok)
    \/ \E a \in Actors, complete \in BOOLEAN : KYCSubmit(a, complete)
    \/ \E a \in Actors : KYCCreate(a)
    \/ \E a \in Actors, k \in 1..MaxUsers, status \in KYCStatusInputs,
          reason \in ReasonInputs :
          (status = REJECTED \/ reason = NoReason) /\ KYCUpdate(a, k, status, reason)
    \/ \E a \in Actors, k \in 1..MaxUsers : KYCDestroy(a, k)
    \/ \E a \in Actors, u \in 1..MaxUsers : UserDestroy(a, u)
    \/ \E a \in Actors : KYCList(a)
    \/ \E a \in Actors, k \in 1..MaxUsers : KYCRetrieve(a, k)
    \/ \E a \in Actors : KYCPending(a)

SpecKYC == InitKYC /\ [][NextKYC]_vars

\* the user endpoints on their own, with every address a body can carry
NextUser ==
    \/ \E role \in RegisterRoles, valid \in BOOLEAN : UserRegister(role, valid)
    \/ \E a \in Actors, u \in 1..MaxUsers, valid \in BOOLEAN, address \in Addresses :
          UserUpdate(a, u, valid, address)
    \/ \E a \in Actors, valid, old_ok \in BOOLEAN :
          (valid \/ old_ok) /\ ChangePassword(a, valid, old_ok)
    \/ \E a \in Actors, u \in 1..MaxUsers : UserDestroy(a, u)

SpecUser == InitProperty /\ [][NextUser]_vars

(* ---------------------- claims: property verification ----------------- *)
Reviewer(a) == IsAdmin(a) \/ IsGovernmentAgency(a)

VerificationState(x) ==
    <<x.verification_status, x.verified_by, x.verified_at, x.rejection_reason>>

\* C1: a request that carries a verification_status for an addressable property,
\* made through the verify action or through an ordinary update by an actor who
\* is neither admin nor government, is answered Forbidden and leaves the
\* property's verification state as it was
C1_NonReviewerForbidden ==
    [][\A a \in DOMAIN users, p \in PropertyQueryset :
          /\ ~Reviewer(a)
          /\ \/ \E vs \in {VERIFIED, REJECTED, PENDING}, r \in ReasonInputs :
                   PropertyVerify(a, p, vs, r)
             \/ \E vs \in {VERIFIED, REJECTED} :
                   PropertyUpdate(a, p, props[p].is_active, vs, TRUE)
          => /\ resp' = FORBIDDEN
             /\ p \in DOMAIN props'
             /\ VerificationState(props'[p]) = VerificationState(props[p])]_vars

\* C2: a reviewer's request to reject an addressable property without a reason,
\* through the verify action or through an update of the property, is answered
\* with a validation error and changes nothing
C2_RejectWithoutReasonInvalid ==
    [][\A a \in DOMAIN users, p \in PropertyQueryset :
          /\ Reviewer(a)
          /\ \/ PropertyVerify(a, p, REJECTED, NoReason)
             \/ PropertyUpdate(a, p, props[p].is_active, REJECTED, TRUE)
          => resp' = BAD_REQUEST /\ props' = props]_vars

\* C3: a reviewer G asking VERIFIED for an addressable PENDING property that G
\* does not own, through the verify action or through a PATCH of the property,
\* succeeds and leaves it VERIFIED by G with no rejection reason
C3_ReviewerVerifies ==
    [][\A a \in DOMAIN users, p \in PropertyQueryset :
          /\ Reviewer(a)
          /\ props[p].verification_status = PENDING
          /\ props[p].owner # a
          /\ \/ PropertyVerify(a, p, VERIFIED, NoReason)
             \/ PropertyUpdate(a, p, props[p].is_active, VERIFIED, TRUE)
          => /\ resp' = OK
             /\ props'[p].verification_status = VERIFIED
             /\ props'[p].verified_by = a
             /\ props'[p].rejection_reason = NoReason]_vars

\* C4: a REJECTED property always has a non-empty rejection reason
C4_RejectedHasReason ==
    \A p \in DOMAIN props :
        props[p].verification_status = REJECTED => props[p].rejection_reason # NoReason

\* a property has been rejected by a successful request
C4_Witness ==
    resp = OK /\ \E p \in DOMAIN props : props[p].verification_status = REJECTED

\* C5 as claimed: a VERIFIED property has an existing verifier and no rejection reason
C5_VerifiedHasVerifier ==
    \A p \in DOMAIN props :
        props[p].verification_status = VERIFIED
        => props[p].verified_by \in DOMAIN users /\ props[p].rejection_reason = NoReason

\* C5 as amended: a VERIFIED property has no rejection reason, and its
\* verified_by is an existing actor unless that actor has been deleted, which
\* leaves verified_by empty and the property VERIFIED
C5_VerifiedHasVerifierUnlessDeleted ==
    [][\A p \in DOMAIN props' :
          props'[p].verification_status = VERIFIED
          => /\ props'[p].rejection_reason = NoReason
             /\ \/ props'[p].verified_by \in DOMAIN users'
                \/ /\ props'[p].verified_by = Null
                   /\ p \in DOMAIN props
                   /\ props[p].verification_status = VERIFIED
                   /\ \/ props[p].verified_by = Null
                      \/ /\ props[p].verified_by \notin DOMAIN users'
                         /\ resp' = NO_CONTENT]_vars

\* the verifier of a VERIFIED property has been deleted
C5_Witness ==
    /\ resp = NO_CONTENT
    /\ \E p \in DOMAIN props :
          props[p].verification_status = VERIFIED /\ props[p].verified_by = Null

\* C6: a reviewer's rejection, with a reason, of an addressable VERIFIED
\* property succeeds and clears verified_by and verified_at
C6_RejectClearsStamp ==
    [][\A a \in DOMAIN users, p \in PropertyQueryset, r \in Reasons :
          /\ Reviewer(a)
          /\ props[p].verification_status = VERIFIED
          /\ PropertyVerify(a, p, REJECTED, r)
          => /\ resp' = OK
             /\ props'[p].verification_status = REJECTED
             /\ props'[p].verified_by = Null
             /\ props'[p].verified_at = Null]_vars

(* ------------------------- payment handlers --------------------------- *)
\* a Payment row as InvoiceViewSet.generate_payment creates it
Payment0(property, payer, receiver) ==
    [property |-> property, payer |-> payer, receiver |-> receiver,
     status |-> PENDING, completed_at |-> Null]

\* an Invoice row with the model's defaults, due on day 1
Invoice0(property, user) ==
    [property |-> property, user |-> user, payment |-> Null,
     status |-> PENDING, due_date |-> 1]

\* Payment.save: stamps completed_at when COMPLETED and not yet stamped
PaymentSave(x) ==
    IF x.status = COMPLETED /\ x.completed_at = Null
    THEN [x EXCEPT !.completed_at = now]
    ELSE x

\* Invoice.is_overdue and Invoice.save
is_overdue(inv) == inv.status = PENDING /\ inv.due_date < now

\* a save() that marks every invoice past its due date, whatever its status
InvoiceSave_AnyStatus(inv) ==
    IF inv.due_date < now THEN [inv EXCEPT !.status = OVERDUE] ELSE inv

InvoiceSave(inv) ==
    IF is_overdue(inv) /\ inv.status = PENDING
    THEN [inv EXCEPT !.status = OVERDUE]
    ELSE inv

\* Subscription: the status values, a row with the model's default status,
\* is_expired and save
ACTIVE == "active"
EXPIRED == "expired"
SubscriptionStatuses == {ACTIVE, EXPIRED, CANCELLED}

Subscription0(user, property, end_date) ==
    [user |-> user, property |-> property, status |-> ACTIVE, end_date |-> end_date]

is_expired(sub) == sub.end_date < now

SubscriptionSave(sub) ==
    IF is_expired(sub) /\ sub.status = ACTIVE
    THEN [sub EXCEPT !.status = EXPIRED]
    ELSE sub

\* PaymentViewSet.get_queryset and InvoiceViewSet.get_queryset
PaymentQueryset(a) ==
    IF users[a].is_staff THEN DOMAIN payments
    ELSE {x \in DOMAIN payments : payments[x].payer = a \/ payments[x].receiver = a}

InvoiceQueryset(a) ==
    IF users[a].is_staff THEN DOMAIN invoices
    ELSE IF users[a].role \in {PROPERTY_OWNER, REAL_ESTATE_FIRM}
    THEN {i \in DOMAIN invoices : props[invoices[i].property].owner = a}
    ELSE {i \in DOMAIN invoices : invoices[i].user = a}

\* the invoice whose payment is x (payment.invoice, a one-to-one reverse)
InvoicesOf(x) == {i \in DOMAIN invoices : invoices[i].payment = x}

\* POST /payments/ : property_id is looked up among the payments, so the body
\* is refused when no payment has that pk, and create() fails on
\* validated_data['property'].owner when one has
PaymentCreate(a, pk) ==
    /\ resp' = IF ~IsAuthenticated(a) THEN UNAUTHORIZED
               ELSE IF ~IsVerifiedUser(a) THEN FORBIDDEN
               ELSE IF pk \notin DOMAIN payments THEN BAD_REQUEST
               ELSE SERVER_ERROR
    /\ UNCHANGED <<userVars, propVars, payVars, now, inflight>>

\* PUT/PATCH /payments/{x}/ with a status: IsAuthenticated & IsAdmin, then
\* serializer.save() -> Payment.save()
PaymentUpdate(a, x, status) ==
    /\ IF ~(IsAuthenticated(a) /\ IsAdmin(a))
       THEN resp' = Denied(a) /\ UNCHANGED payments
       ELSE IF x \notin PaymentQueryset(a)
       THEN resp' = NOT_FOUND /\ UNCHANGED payments
       ELSE /\ resp' = OK
            /\ payments' = [payments EXCEPT
                   ![x] = PaymentSave([payments[x] EXCEPT !.status = status])]
    /\ UNCHANGED <<userVars, propVars, nextPaymentId, invoices, txns, now, inflight, subs>>

\* POST /payments/{x}/verify_payment/
VerifyPayment(a, x) ==
    /\ IF ~IsAuthenticated(a)
       THEN resp' = UNAUTHORIZED /\ UNCHANGED <<payments, txns, invoices>>
       ELSE IF x \notin PaymentQueryset(a)
       THEN resp' = NOT_FOUND /\ UNCHANGED <<payments, txns, invoices>>
       ELSE /\ txns[x] < MaxTxns
            /\ resp' = OK
            /\ payments' = [payments EXCEPT ![x] =
                   PaymentSave([payments[x] EXCEPT !.status = COMPLETED,
                                                   !.completed_at = now])]
            /\ txns' = [txns EXCEPT ![x] = txns[x] + 1]
            /\ invoices' = [i \in DOMAIN invoices |->
                   IF i \in InvoicesOf(x)
                   THEN InvoiceSave([invoices[i] EXCEPT !.status = PAID])
                   ELSE invoices[i]]
    /\ UNCHANGED <<userVars, propVars, nextPaymentId, now, inflight, subs>>

\* a generate_payment that never finds a payment on the invoice
HasPayment_Never(inv) == FALSE

\* generate_payment's test "if invoice.payment"
HasPayment(inv) == inv.payment # Null

\* POST /invoices/{i}/generate_payment/
GeneratePayment(a, i, payment_method) ==
    /\ IF ~IsAuthenticated(a)
       THEN resp' = UNAUTHORIZED /\ UNCHANGED payVars
       ELSE IF i \notin InvoiceQueryset(a)
       THEN resp' = NOT_FOUND /\ UNCHANGED payVars
       ELSE IF HasPayment(invoices[i]) \/ ~payment_method
       THEN resp' = BAD_REQUEST /\ UNCHANGED payVars
       ELSE /\ nextPaymentId <= MaxPayments
            /\ resp' = CREATED
            /\ payments' = payments @@ (nextPaymentId :>
                   Payment0(invoices[i].property, invoices[i].user,
                            props[invoices[i].property].owner))
            /\ txns' = txns @@ (nextPaymentId :> 0)
            /\ nextPaymentId' = nextPaymentId + 1
            /\ invoices' = [invoices EXCEPT ![i] =
                   InvoiceSave([invoices[i] EXCEPT !.payment = nextPaymentId])]
    /\ UNCHANGED <<userVars, propVars, now, inflight, subs>>

\* DELETE /payments/{x}/ : IsAuthenticated & IsAdmin; Transaction.payment
\* cascades and Invoice.payment is set to NULL by the database, without save()
PaymentDestroy(a, x) ==
    /\ IF ~(IsAuthenticated(a) /\ IsAdmin(a))
       THEN resp' = Denied(a) /\ UNCHANGED <<payments, txns, invoices>>
       ELSE IF x \notin PaymentQueryset(a)
       THEN resp' = NOT_FOUND /\ UNCHANGED <<payments, txns, invoices>>
       ELSE /\ resp' = NO_CONTENT
            /\ payments' = Remove(payments, {x})
            /\ txns' = Remove(txns, {x})
            /\ invoices' = [i \in DOMAIN invoices |->
                   IF invoices[i].payment = x
                   THEN [invoices[i] EXCEPT !.payment = Null]
                   ELSE invoices[i]]
    /\ UNCHANGED <<userVars, propVars, nextPaymentId, now, inflight, subs>>

\* InvoiceSerializer declares is_overdue with source='is_overdue', which the
\* field's bind() refuses with an AssertionError as soon as the serializer's
\* fields are built, that is whenever an invoice is to be represented
InvoiceSerializerBinds == FALSE

\* what InvoiceSerializer's status field would present: the stored column
InvoiceRepresentation(inv) == inv.status

\* the rows of GET /invoices/overdue/ : those stored as OVERDUE
OverdueListing(a) == {i \in InvoiceQueryset(a) : invoices[i].status = OVERDUE}

\* the answer to a listing of the invoices in S
InvoiceListResponse(S) == IF S = {} \/ InvoiceSerializerBinds THEN OK ELSE SERVER_ERROR

\* GET /invoices/{i}/
InvoiceRetrieve(a, i) ==
    /\ resp' = IF ~IsAuthenticated(a) THEN UNAUTHORIZED
               ELSE IF i \notin InvoiceQueryset(a) THEN NOT_FOUND
               ELSE IF ~InvoiceSerializerBinds THEN SERVER_ERROR
               ELSE OK
    /\ UNCHANGED <<userVars, propVars, payVars, now, inflight>>

\* GET /invoices/ and GET /invoices/overdue/
InvoiceList(a) ==
    /\ resp' = IF ~IsAuthenticated(a) THEN UNAUTHORIZED
               ELSE InvoiceListResponse(InvoiceQueryset(a))
    /\ UNCHANGED <<userVars, propVars, payVars, now, inflight>>

InvoiceOverdue(a) ==
    /\ resp' = IF ~IsAuthenticated(a) THEN UNAUTHORIZED
               ELSE InvoiceListResponse(OverdueListing(a))
    /\ UNCHANGED <<userVars, propVars, payVars, now, inflight>>

\* PUT/PATCH /invoices/{i}/ with a status: get_object() (the queryset, then
\* IsOwnerOrAdmin on invoice.user), then the serializer's validation
InvoiceUpdate(a, i, status) ==
    /\ IF ~IsAuthenticated(a)
       THEN resp' = UNAUTHORIZED /\ UNCHANGED invoices
       ELSE IF i \notin InvoiceQueryset(a)
       THEN resp' = NOT_FOUND /\ UNCHANGED invoices
       ELSE IF ~IsOwnerOrAdmin(a, invoices[i].user)
       THEN resp' = FORBIDDEN /\ UNCHANGED invoices
       ELSE IF ~InvoiceSerializerBinds
       THEN resp' = SERVER_ERROR /\ UNCHANGED invoices
       ELSE /\ resp' = OK
            /\ invoices' = [invoices EXCEPT
                   ![i] = InvoiceSave([invoices[i] EXCEPT !.status = status])]
    /\ UNCHANGED <<userVars, propVars, payments, nextPaymentId, txns, now, inflight, subs>>

\* DELETE /invoices/{i}/ : the same checks, no serializer; the payment stays
InvoiceDestroy(a, i) ==
    /\ IF ~IsAuthenticated(a)
       THEN resp' = UNAUTHORIZED /\ UNCHANGED invoices
       ELSE IF i \notin InvoiceQueryset(a)
       THEN resp' = NOT_FOUND /\ UNCHANGED invoices
       ELSE IF ~IsOwnerOrAdmin(a, invoices[i].user)
       THEN resp' = FORBIDDEN /\ UNCHANGED invoices
       ELSE resp' = NO_CONTENT /\ invoices' = Remove(invoices, {i})
    /\ UNCHANGED <<userVars, propVars, payments, nextPaymentId, txns, now, inflight, subs>>

\* a day passes (timezone.now())
Tick ==
    /\ now < MaxTime
    /\ now' = now + 1
    /\ UNCHANGED <<userVars, propVars, payVars, resp, inflight>>

\* the property fixture with the buyer verified, and one PENDING invoice per
\* invoice id, issued to the buyer for property 1
InitPayment ==
    /\ users = UsersFixture(FALSE, TRUE)
    /\ nextUserId = 5
    /\ kyc = << >>
    /\ InitProps
    /\ payments = << >>
    /\ nextPaymentId = 1
    /\ txns = << >>
    /\ invoices = [i \in 1..MaxInvoices |-> Invoice0(1, 4)]
    /\ InitResp
    /\ now = 1
    /\ inflight = << >> /\ leads = << >> /\ InitMore

PaymentStatusInputs == {PENDING, COMPLETED, FAILED, REFUNDED}
InvoiceStatusInputs == {PENDING, PAID, OVERDUE, CANCELLED}

NextPayment ==
    \/ \E a \in Actors, pk \in 1..MaxPayments : PaymentCreate(a, pk)
    \/ \E a \in Actors, x \in 1..MaxPayments, status \in PaymentStatusInputs :
          PaymentUpdate(a, x, status)
    \/ \E a \in Actors, x \in 1..MaxPayments : VerifyPayment(a, x)
    \/ \E a \in Actors, x \in 1..MaxPayments : PaymentDestroy(a, x)
    \/ \E a \in Actors, i \in 1..MaxInvoices, status \in InvoiceStatusInputs :
          InvoiceUpdate(a, i, status)
    \/ \E a \in Actors, i \in 1..MaxInvoices : InvoiceDestroy(a, i)
    \/ \E a \in Actors, i \in 1..MaxInvoices, payment_method \in BOOLEAN :
          GeneratePayment(a, i, payment_method)
    \/ \E a \in Actors, i \in 1..MaxInvoices : InvoiceRetrieve(a, i)
    \/ \E a \in Actors : InvoiceList(a)
    \/ \E a \in Actors : InvoiceOverdue(a)
    \/ Tick

SpecPayment == InitPayment /\ [][NextPayment]_vars

\* the requests that create, complete or delete payments and invoices, on a
\* clock that stands still
NextLink ==
    \/ \E a \in Actors, i \in 1..MaxInvoices, payment_method \in BOOLEAN :
          GeneratePayment(a, i, payment_method)
    \/ \E a \in Actors, x \in 1..MaxPayments : VerifyPayment(a, x)
    \/ \E a \in Actors, x \in 1..MaxPayments : PaymentDestroy(a, x)
    \/ \E a \in Actors, i \in 1..MaxInvoices, status \in InvoiceStatusInputs :
          InvoiceUpdate(a, i, status)
    \/ \E a \in Actors, i \in 1..MaxInvoices : InvoiceDestroy(a, i)

SpecLink == InitPayment /\ [][NextLink]_vars

(* --------------------------- claims: KYC review ------------------------ *)
\* C7: a reviewer's approval of a KYC record succeeds and makes its user
\* verified; a rejection with a reason succeeds and makes the user unverified;
\* approving an APPROVED record again leaves is_verified and the status alone.
C7_ApproveSetsVerified ==
    [][\A a \in DOMAIN users, k \in DOMAIN kyc :
          /\ Reviewer(a) /\ KYCUpdate(a, k, APPROVED, NoReason)
              => /\ resp' = OK
                 /\ kyc'[k].status = APPROVED
                 /\ users'[k].is_verified
                 /\ kyc[k].status = APPROVED
                    => users'[k].is_verified = users[k].is_verified
          /\ \A r \in Reasons :
                Reviewer(a) /\ KYCUpdate(a, k, REJECTED, r)
                => resp' = OK /\ ~users'[k].is_verified]_vars

C9_VerifiedChangesOnlyByReview ==
    [][\A u \in (DOMAIN users) \cap (DOMAIN users') :
          users'[u].is_verified # users[u].is_verified
          => /\ u \in DOMAIN kyc
             /\ \E a \in DOMAIN users, status \in KYCStatusInputs,
                   reason \in ReasonInputs :
                   Reviewer(a) /\ KYCUpdate(a, u, status, reason)]_vars

\* the buyer of the fixture, who started verified, has been made unverified by
\* the rejection of the KYC record
C9_Witness ==
    /\ 4 \in DOMAIN users /\ 4 \in DOMAIN kyc
    /\ kyc[4].status = REJECTED /\ kyc[4].rejection_reason \in Reasons
    /\ ~users[4].is_verified
    /\ resp = OK
(* ---------------------------- claims: payments ------------------------- *)
\* C10: once verify_payment has completed a payment (it is COMPLETED and has its
\* verification Transaction), completing it again, by verify_payment or by
\* saving it as COMPLETED, leaves its completed_at as it was, records no
\* further Transaction and changes no invoice.
C10_CompleteTwiceIdempotent ==
    [][\A a \in DOMAIN users, x \in DOMAIN payments :
          /\ payments[x].status = COMPLETED
          /\ txns[x] >= 1
          /\ VerifyPayment(a, x) \/ PaymentUpdate(a, x, COMPLETED)
          /\ resp' = OK
          => /\ payments'[x].completed_at = payments[x].completed_at
             /\ txns' = txns
             /\ invoices' = invoices]_vars

\* the status changes of a Payment the lattice allows
PaymentLattice ==
    {<<PENDING, COMPLETED>>, <<PENDING, FAILED>>, <<COMPLETED, REFUNDED>>}

\* C11: a stored Payment changes status only along PENDING->COMPLETED,
\* PENDING->FAILED and COMPLETED->REFUNDED, and an Invoice that is PAID or
\* CANCELLED keeps its status, in every step.
C11_StatusLattice ==
    [][/\ \A x \in (DOMAIN payments) \cap (DOMAIN payments') :
             payments'[x].status # payments[x].status
             => <<payments[x].status, payments'[x].status>> \in PaymentLattice
       /\ \A i \in (DOMAIN invoices) \cap (DOMAIN invoices') :
             invoices[i].status \in {PAID, CANCELLED}
             => invoices'[i].status = invoices[i].status]_vars

(* ------------- requests handled write by write (autocommit) ------------ *)
\* Neither handler opens a transaction: each save() and create() is its own
\* committed statement, and another request, or the end of this one, can come
\* between two of them.  A request that passed its checks is in inflight with
\* what its later steps read (the rows it loaded, row and urow, and for a KYC
\* review the reviewer and the body), the step it is at (pc) and, once done,
\* its response (result); a refused one is answered at once.
VERIFY_PAYMENT == "verify_payment"
KYC_REVIEW == "kyc_review"
NoRow == [status |-> Absent]

Request(op, a, target, pc, result, row, urow, status, reason) ==
    [op |-> op, actor |-> a, target |-> target, pc |-> pc, result |-> result,
     row |-> row, urow |-> urow, status |-> status, reason |-> reason]

NewRequest == Cardinality(DOMAIN inflight) + 1

Start(q) == inflight' = inflight @@ (NewRequest :> q)
Advance(r, pc) == inflight' = [inflight EXCEPT ![r].pc = pc]
Finish(r, result) ==
    /\ inflight' = [inflight EXCEPT ![r].pc = "done", ![r].result = result]
    /\ resp' = result

\* verify_payment, line 72: get_object() loads the payment row
VerifyPaymentBegin(a, x) ==
    /\ NewRequest <= MaxRequests
    /\ LET refused == IF ~IsAuthenticated(a) THEN UNAUTHORIZED
                      ELSE IF x \notin PaymentQueryset(a) THEN NOT_FOUND
                      ELSE OK
       IN IF refused # OK
          THEN resp' = refused /\ UNCHANGED inflight
          ELSE /\ Start(Request(VERIFY_PAYMENT, Null, x, "save_payment", "none",
                                payments[x], NoRow, Absent, NoReason))
               /\ UNCHANGED resp
    /\ UNCHANGED <<userVars, propVars, payVars, now>>

\* lines 76-78: the loaded row is stamped and written back as a whole
VerifyPaymentSave(r) ==
    /\ r \in DOMAIN inflight
    /\ inflight[r].op = VERIFY_PAYMENT /\ inflight[r].pc = "save_payment"
    /\ payments' = [payments EXCEPT ![inflight[r].target] =
           PaymentSave([inflight[r].row EXCEPT !.status = COMPLETED,
                                               !.completed_at = now])]
    /\ Advance(r, "create_transaction")
    /\ UNCHANGED <<userVars, propVars, nextPaymentId, invoices, txns, subs, now, resp>>

\* lines 80-86: Transaction.objects.create
VerifyPaymentTransaction(r) ==
    /\ r \in DOMAIN inflight
    /\ inflight[r].op = VERIFY_PAYMENT /\ inflight[r].pc = "create_transaction"
    /\ txns[inflight[r].target] < MaxTxns
    /\ txns' = [txns EXCEPT ![inflight[r].target] = @ + 1]
    /\ Advance(r, "save_invoice")
    /\ UNCHANGED <<userVars, propVars, payments, nextPaymentId, invoices, subs, now, resp>>

\* lines 88-98: payment.invoice is loaded, set PAID and saved; the response
VerifyPaymentCascade(r) ==
    /\ r \in DOMAIN inflight
    /\ inflight[r].op = VERIFY_PAYMENT /\ inflight[r].pc = "save_invoice"
    /\ invoices' = [i \in DOMAIN invoices |->
           IF i \in InvoicesOf(inflight[r].target)
           THEN InvoiceSave([invoices[i] EXCEPT !.status = PAID])
           ELSE invoices[i]]
    /\ Finish(r, OK)
    /\ UNCHANGED <<userVars, propVars, payments, nextPaymentId, txns, subs, now>>

\* PATCH /kyc/{k}/ up to the first save(): permission, get_object() (which
\* loads the record, and update() its user), validate(), and the branch of
\* update() that raises before it saves
KYCReviewBegin(a, k, status, reason) ==
    /\ NewRequest <= MaxRequests
    /\ LET refused == IF ~(IsAdmin(a) \/ IsGovernmentAgency(a)) THEN Denied(a)
                      ELSE IF k \notin KYCQueryset(a) THEN NOT_FOUND
                      ELSE IF ~KYCUpdateValidate(status, reason) THEN BAD_REQUEST
                      ELSE IF status = APPROVED THEN SERVER_ERROR
                      ELSE OK
       IN IF refused # OK
          THEN resp' = refused /\ UNCHANGED inflight
          ELSE /\ Start(Request(KYC_REVIEW, a, k, "save_user", "none",
                                kyc[k], users[k], status, reason))
               /\ UNCHANGED resp
    /\ UNCHANGED <<userVars, propVars, payVars, now>>

\* update(), line 117: user.save()
KYCReviewSaveUser(r) ==
    /\ r \in DOMAIN inflight
    /\ inflight[r].op = KYC_REVIEW /\ inflight[r].pc = "save_user"
    /\ users' = [users EXCEPT ![inflight[r].target] =
           KYCUpdateUser(inflight[r].urow, inflight[r].status)]
    /\ Advance(r, "save_record")
    /\ UNCHANGED <<nextUserId, kyc, propVars, payVars, now, resp>>

\* update(), line 118: instance.save(), refused when the status is None
KYCReviewSaveRecord(r) ==
    /\ r \in DOMAIN inflight
    /\ inflight[r].op = KYC_REVIEW /\ inflight[r].pc = "save_record"
    /\ IF KYCUpdateReturns(inflight[r].status)
       THEN /\ kyc' = [kyc EXCEPT ![inflight[r].target] =
                   KYCUpdateRecord(inflight[r].row, inflight[r].status,
                                   inflight[r].reason, inflight[r].actor)]
            /\ Finish(r, OK)
       ELSE UNCHANGED kyc /\ Finish(r, SERVER_ERROR)
    /\ UNCHANGED <<users, nextUserId, propVars, payVars, now>>

\* the request ends at its next write: the statement fails or the worker is
\* stopped; what was written before stays written
Interrupt(r) ==
    /\ r \in DOMAIN inflight
    /\ inflight[r].pc \in {"save_payment", "create_transaction", "save_invoice",
                           "save_user", "save_record"}
    /\ Finish(r, SERVER_ERROR)
    /\ UNCHANGED <<userVars, propVars, payVars, now>>

\* the store after POST /invoices/1/generate_payment/ and the buyer's
\* POST /kyc/submit/ : payment 1 PENDING for invoice 1, a PENDING KYC record
Payments1 == (1 :> Payment0(1, 4, 3))
Invoices1 == (1 :> [Invoice0(1, 4) EXCEPT !.payment = 1])
Kyc1 == (4 :> KYC0)

InitRequests ==
    /\ users = UsersFixture(FALSE, TRUE)
    /\ nextUserId = 5
    /\ kyc = Kyc1
    /\ InitProps
    /\ payments = Payments1
    /\ nextPaymentId = 2
    /\ txns = (1 :> 0)
    /\ invoices = Invoices1
    /\ InitResp
    /\ now = 1
    /\ inflight = << >> /\ leads = << >> /\ InitMore

NextRequests ==
    \/ \E a \in Actors, x \in 1..MaxInvoices : VerifyPaymentBegin(a, x)
    \/ \E r \in 1..MaxRequests : VerifyPaymentSave(r)
    \/ \E r \in 1..MaxRequests : VerifyPaymentTransaction(r)
    \/ \E r \in 1..MaxRequests : VerifyPaymentCascade(r)
    \/ \E a \in Actors, k \in 1..MaxUsers, status \in KYCStatusInputs,
          reason \in ReasonInputs :
          (status = REJECTED \/ reason = NoReason) /\ KYCReviewBegin(a, k, status, reason)
    \/ \E r \in 1..MaxRequests : KYCReviewSaveUser(r)
    \/ \E r \in 1..MaxRequests : KYCReviewSaveRecord(r)
    \/ \E r \in 1..MaxRequests : Interrupt(r)

SpecRequests == InitRequests /\ [][NextRequests]_vars

(* ------------------ generate_payment, statement by statement ---------- *)
GENERATE_PAYMENT == "generate_payment"

\* generate_payment, lines 161-176: get_object() loads the invoice row, and the
\* two tests on it and on the body answer 400
GeneratePaymentBegin(a, i, payment_method) ==
    /\ NewRequest <= MaxRequests
    /\ LET refused == IF ~IsAuthenticated(a) THEN UNAUTHORIZED
                      ELSE IF i \notin InvoiceQueryset(a) THEN NOT_FOUND
                      ELSE IF HasPayment(invoices[i]) \/ ~payment_method
                      THEN BAD_REQUEST
                      ELSE OK
       IN IF refused # OK
          THEN resp' = refused /\ UNCHANGED inflight
          ELSE /\ Start(Request(GENERATE_PAYMENT, a, i, "create_payment", "none",
                                invoices[i], NoRow, Absent, NoReason))
               /\ UNCHANGED resp
    /\ UNCHANGED <<userVars, propVars, payVars, now>>

\* lines 179-191: Payment.objects.create from the loaded invoice, and the
\* loaded invoice is pointed at the new payment (invoice.payment = payment)
GeneratePaymentCreate(r) ==
    /\ r \in DOMAIN inflight
    /\ inflight[r].op = GENERATE_PAYMENT /\ inflight[r].pc = "create_payment"
    /\ nextPaymentId <= MaxPayments
    /\ payments' = payments @@ (nextPaymentId :>
           Payment0(inflight[r].row.property, inflight[r].row.user,
                    props[inflight[r].row.property].owner))
    /\ txns' = txns @@ (nextPaymentId :> 0)
    /\ nextPaymentId' = nextPaymentId + 1
    /\ inflight' = [inflight EXCEPT ![r].pc = "save_link",
                                    ![r].row.payment = nextPaymentId]
    /\ UNCHANGED <<userVars, propVars, invoices, subs, now, resp>>

\* lines 192-196: invoice.save() writes the loaded row back as a whole; the
\* response
GeneratePaymentLink(r) ==
    /\ r \in DOMAIN inflight
    /\ inflight[r].op = GENERATE_PAYMENT /\ inflight[r].pc = "save_link"
    /\ invoices' = [invoices EXCEPT ![inflight[r].target] = InvoiceSave(inflight[r].row)]
    /\ Finish(r, CREATED)
    /\ UNCHANGED <<userVars, propVars, payments, nextPaymentId, txns, subs, now>>

NextGenerate ==
    \/ \E a \in Actors, i \in 1..MaxInvoices, payment_method \in BOOLEAN :
          GeneratePaymentBegin(a, i, payment_method)
    \/ \E r \in 1..MaxRequests : GeneratePaymentCreate(r)
    \/ \E r \in 1..MaxRequests : GeneratePaymentLink(r)

SpecGenerate == InitPayment /\ [][NextGenerate]_vars

(* ------------------- claims: overlapping and cut-short requests -------- *)
\* the verify_payment requests that loaded payment x while it was PENDING and
\* have been answered
CompletionsOf(x) ==
    {r \in DOMAIN inflight :
        /\ inflight[r].op = VERIFY_PAYMENT /\ inflight[r].target = x
        /\ inflight[r].row.status = PENDING /\ inflight[r].pc = "done"}

\* C12: of two verify_payment requests that both found the same payment
\* PENDING, at most one is answered with success, and the completion is
\* recorded (Transaction) once.
C12_OneCompletionWins ==
    \A x \in DOMAIN payments :
        \A r1, r2 \in CompletionsOf(x) :
            r1 # r2 /\ inflight[r1].result = OK
            => inflight[r2].result # OK /\ txns[x] = 1

\* C13: when the only request handled is a verify_payment or a KYC review that
\* ended in an error, none of its writes is in the store: payments,
\* transactions, invoices, users and KYC records are as they were before it.
C13_AllOrNothing ==
    (/\ DOMAIN inflight = {1}
     /\ inflight[1].pc = "done"
     /\ inflight[1].result = SERVER_ERROR)
    => /\ payments = Payments1 /\ txns = (1 :> 0) /\ invoices = Invoices1
       /\ users = UsersFixture(FALSE, TRUE) /\ kyc = Kyc1

(* ---------------------------- claims: invoices ------------------------- *)
\* C14: a read (retrieve or the overdue listing) by a caller who can address
\* an invoice stored as PENDING with its due date in the past is answered
\* with success and shows the invoice as OVERDUE, and the overdue listing
\* contains it.
C14_OverdueOnRead ==
    [][\A a \in DOMAIN users :
          \A i \in InvoiceQueryset(a) :
              /\ invoices[i].status = PENDING /\ invoices[i].due_date < now
              /\ InvoiceRetrieve(a, i) \/ InvoiceOverdue(a)
              => /\ resp' = OK
                 /\ InvoiceRepresentation(invoices[i]) = OVERDUE
                 /\ i \in OverdueListing(a)]_vars

(* ---------------------------- lead handlers ---------------------------- *)
\* LeadViewSet.get_queryset: owners and firms see the leads on their
\* properties, every other caller the leads they created
LeadQueryset(a) ==
    IF users[a].role \in {PROPERTY_OWNER, REAL_ESTATE_FIRM}
    THEN {l \in DOMAIN leads : props[leads[l].property].owner = a}
    ELSE {l \in DOMAIN leads : leads[l].user = a}

\* POST /leads/ : LeadSerializer takes property and status from the body (an
\* absent status is the column default), perform_create supplies the user
LeadCreate(a, p, status) ==
    /\ IF ~IsAuthenticated(a)
       THEN resp' = UNAUTHORIZED /\ UNCHANGED leads
       ELSE IF p \notin DOMAIN props
       THEN resp' = BAD_REQUEST /\ UNCHANGED leads
       ELSE /\ Cardinality(DOMAIN leads) < MaxLeads
            /\ resp' = CREATED
            /\ leads' = leads @@ (Cardinality(DOMAIN leads) + 1 :>
                   [user |-> a, property |-> p,
                    status |-> IF status = Absent THEN NEW_LEAD ELSE status])
    /\ UNCHANGED <<userVars, props, payVars, now, inflight, messages, compliance, checks>>

\* PUT/PATCH /leads/{l}/ : status is a writable field of LeadSerializer
LeadUpdate(a, l, status) ==
    /\ IF ~IsAuthenticated(a)
       THEN resp' = UNAUTHORIZED /\ UNCHANGED leads
       ELSE IF l \notin LeadQueryset(a)
       THEN resp' = NOT_FOUND /\ UNCHANGED leads
       ELSE /\ resp' = OK
            /\ leads' = IF status = Absent THEN leads
                        ELSE [leads EXCEPT ![l].status = status]
    /\ UNCHANGED <<userVars, props, payVars, now, inflight, messages, compliance, checks>>

\* PATCH /leads/{l}/update_status/ : an absent (or unknown) status is refused
LeadUpdateStatus(a, l, status) ==
    /\ IF ~IsAuthenticated(a)
       THEN resp' = UNAUTHORIZED /\ UNCHANGED leads
       ELSE IF l \notin LeadQueryset(a)
       THEN resp' = NOT_FOUND /\ UNCHANGED leads
       ELSE IF status = Absent
       THEN resp' = BAD_REQUEST /\ UNCHANGED leads
       ELSE IF a # props[leads[l].property].owner /\ ~is_admin(a)
       THEN resp' = FORBIDDEN /\ UNCHANGED leads
       ELSE /\ resp' = OK
            /\ leads' = [leads EXCEPT ![l].status = status]
    /\ UNCHANGED <<userVars, props, payVars, now, inflight, messages, compliance, checks>>

\* the users and property of the fixture, no lead yet
InitLead ==
    /\ users = UsersFixture(FALSE, FALSE)
    /\ nextUserId = 5
    /\ kyc = << >>
    /\ InitProps
    /\ InitPayEmpty /\ InitResp /\ now = 1
    /\ inflight = << >>
    /\ leads = << >>
    /\ InitMore

LeadStatusInputs == {Absent} \cup LeadStatuses

NextLead ==
    \/ \E a \in Actors, p \in 0..MaxProps, status \in LeadStatusInputs :
          LeadCreate(a, p, status)
    \/ \E a \in Actors, l \in 1..MaxLeads, status \in LeadStatusInputs :
          LeadUpdate(a, l, status)
    \/ \E a \in Actors, l \in 1..MaxLeads, status \in LeadStatusInputs :
          LeadUpdateStatus(a, l, status)
    \/ \E a \in Actors, valid \in BOOLEAN : PropertyCreate(a, valid)

SpecLead == InitLead /\ [][NextLead]_vars

(* --------------------------- message handlers -------------------------- *)
\* MessageSerializer.create: the sender is the caller, the lead is the one
\* named in the body, and the receiver is worked out from that lead
MessageSerializerCreate(a, lead) ==
    [lead |-> lead, sender |-> a,
     receiver |-> IF a = leads[lead].user
                  THEN props[leads[lead].property].owner
                  ELSE leads[lead].user]

\* POST /leads/{lead_pk}/messages/ with a body naming a lead; valid says that
\* the body carries a content and a stored receiver, both required fields.
\* Lead.objects.get raises DoesNotExist for a path that names no lead
MessageCreate(a, lead_pk, lead, valid) ==
    /\ IF ~IsAuthenticated(a)
       THEN resp' = UNAUTHORIZED /\ UNCHANGED messages
       ELSE IF lead_pk \notin DOMAIN leads
       THEN resp' = SERVER_ERROR /\ UNCHANGED messages
       ELSE IF /\ a # leads[lead_pk].user
               /\ a # props[leads[lead_pk].property].owner
               /\ ~is_admin(a)
       THEN resp' = FORBIDDEN /\ UNCHANGED messages
       ELSE IF ~valid \/ lead \notin DOMAIN leads
       THEN resp' = BAD_REQUEST /\ UNCHANGED messages
       ELSE /\ Cardinality(DOMAIN messages) < MaxMessages
            /\ resp' = CREATED
            /\ messages' = messages @@ (Cardinality(DOMAIN messages) + 1 :>
                   MessageSerializerCreate(a, lead))
    /\ UNCHANGED <<userVars, props, leads, compliance, checks, payVars, now, inflight>>

NextMessage ==
    \/ \E a \in Actors, p \in 0..MaxProps : LeadCreate(a, p, Absent)
    \/ \E a \in Actors, lead_pk \in 0..MaxLeads, lead \in 0..MaxLeads,
          valid \in BOOLEAN : MessageCreate(a, lead_pk, lead, valid)

SpecMessage == InitLead /\ [][NextMessage]_vars

(* ------------------------------ claims: leads -------------------------- *)
\* C15: a request (update_status or an ordinary update) on a stored lead from
\* a caller who is neither the owner of the lead's property nor an admin, the
\* creator of the lead included, leaves the lead's status as it was.
C15_LeadStatusByOwnerOrAdmin ==
    [][\A a \in DOMAIN users, l \in DOMAIN leads, status \in LeadStatusInputs :
          /\ a # props[leads[l].property].owner /\ ~IsAdmin(a)
          /\ LeadUpdateStatus(a, l, status) \/ LeadUpdate(a, l, status)
          => leads'[l].status = leads[l].status]_vars

\* C16: a request from a caller whose role is ADMIN is allowed: the admin's
\* valid creation of a property succeeds, and the admin's update_status on any
\* stored lead, whoever created it, succeeds and sets the status.
C16_AdminAlwaysAllowed ==
    [][\A a \in DOMAIN users :
          IsAdmin(a)
          => /\ PropertyCreate(a, TRUE) => resp' = CREATED
             /\ \A l \in DOMAIN leads, status \in LeadStatuses :
                   LeadUpdateStatus(a, l, status)
                   => resp' = OK /\ leads'[l].status = status]_vars

(* ------------------------ claims: reading properties ------------------- *)
\* an unauthenticated caller, or a buyer/renter who is not verified
UnverifiedReader(a) ==
    a = Anon \/ (users[a].role = BUYER_RENTER /\ ~users[a].is_verified)

\* C17: a list or a retrieve of properties by an unauthenticated caller or an
\* unverified buyer/renter gives only properties whose verification_status is
\* VERIFIED.
C17_ReadersSeeOnlyVerified ==
    [][\A a \in Actors :
          UnverifiedReader(a)
          => /\ PropertyList(a)
                => \A p \in PropertyListing(a) :
                      props[p].verification_status = VERIFIED
             /\ \A p \in DOMAIN props :
                   PropertyRetrieve(a, p) /\ resp' = OK
                   => props[p].verification_status = VERIFIED]_vars

(* --------------------------- claims: KYC access ------------------------ *)
\* C18 as stated: the status of a KYC record changes only in a step that is the
\* update of that record by an admin or government caller.
C18_OnlyReviewersChangeStatus ==
    [][\A k \in (DOMAIN kyc) \cap (DOMAIN kyc') :
          kyc'[k].status # kyc[k].status
          => \E a \in DOMAIN users, status \in KYCStatusInputs,
                reason \in ReasonInputs :
                Reviewer(a) /\ KYCUpdate(a, k, status, reason)]_vars

\* C18: an authenticated caller who is neither admin nor government is answered
\* forbidden when sending a valid review (a status, with a reason when it is
\* REJECTED) for the KYC record of any user, and the update changes no KYC record
\* and no user's is_verified; the same caller is answered forbidden by the KYC
\* list and by the pending listing, and retrieves no record but their own. The
\* status of a record changes only by a reviewer's update or by the resubmission
\* of its own user, which puts it back to PENDING.
C18_KYCReviewReserved ==
    [][/\ \A a \in DOMAIN users :
             ~Reviewer(a)
             => /\ \A k \in DOMAIN users, status \in {PENDING, APPROVED, REJECTED},
                      reason \in ReasonInputs :
                      /\ (status = REJECTED) = (reason \in Reasons)
                      /\ KYCUpdate(a, k, status, reason)
                      => /\ resp' = FORBIDDEN
                         /\ kyc' = kyc
                         /\ \A u \in DOMAIN users :
                               users'[u].is_verified = users[u].is_verified
                /\ KYCPending(a) => resp' = FORBIDDEN
                /\ KYCList(a) => resp' = FORBIDDEN
                /\ \A k \in 1..MaxUsers :
                      KYCRetrieve(a, k) /\ resp' = OK => k = a
       /\ \A k \in (DOMAIN kyc) \cap (DOMAIN kyc') :
             kyc'[k].status # kyc[k].status
             => \/ \E a \in DOMAIN users, status \in KYCStatusInputs,
                      reason \in ReasonInputs :
                      Reviewer(a) /\ KYCUpdate(a, k, status, reason)
                \/ KYCSubmit(k, TRUE) /\ kyc'[k].status = PENDING]_vars

\* the buyer's record was rejected by a reviewer and a second buyer has a record
\* too; a request has just been answered forbidden
C18_Witness ==
    /\ 4 \in DOMAIN kyc /\ 5 \in DOMAIN kyc
    /\ ~Reviewer(4) /\ ~Reviewer(5)
    /\ kyc[4].status = REJECTED
    /\ resp = FORBIDDEN

(* ------------------- claims: scope and creation of properties ---------- *)
\* C19: an update or a delete of a property outside the caller's scope (another
\* owner's property, for a caller who is not an admin) is answered not found,
\* exactly as the same request is for an id that does not exist.
C19_OutOfScopeIsNotFound ==
    [][\A a \in DOMAIN users, p \in PropIds :
          /\ ~is_admin(a)
          /\ p \in DOMAIN props => props[p].owner # a
          /\ \/ PropertyDestroy(a, p)
             \/ \E active, valid \in BOOLEAN, vstatus \in {Absent, VERIFIED, REJECTED} :
                   PropertyUpdate(a, p, active, vstatus, valid)
          => resp' = NOT_FOUND]_vars

\* C20: a valid create by any authenticated PROPERTY_OWNER, verified or not, is
\* answered created and adds exactly one property, owned by the caller and
\* PENDING; a create without credentials is refused and adds no property.
C20_OwnerCreatesProperty ==
    [][/\ \A a \in DOMAIN users :
             users[a].role = PROPERTY_OWNER /\ PropertyCreate(a, TRUE)
             => /\ resp' = CREATED
                /\ \E p \in DOMAIN props' \ DOMAIN props :
                      /\ DOMAIN props' = DOMAIN props \cup {p}
                      /\ props'[p].owner = a
                      /\ props'[p].verification_status = PENDING
       /\ \A valid \in BOOLEAN :
             PropertyCreate(Anon, valid)
             => resp' \in {UNAUTHORIZED, FORBIDDEN} /\ props' = props]_vars

\* C21: an update or a delete of a property by an authenticated caller who is
\* neither its owner nor an admin is answered forbidden and leaves every
\* property as it was; the owner's and an admin's valid update and their delete
\* succeed; no step changes the owner of a property.
C21_OwnerOrAdminModifies ==
    [][/\ \A a \in DOMAIN users, p \in DOMAIN props :
             /\ ~IsOwnerOrAdmin(a, props[p].owner)
                /\ \/ PropertyDestroy(a, p)
                   \/ \E active, valid \in BOOLEAN, vstatus \in {Absent, VERIFIED, REJECTED} :
                         PropertyUpdate(a, p, active, vstatus, valid)
                => resp' = FORBIDDEN /\ props' = props
             /\ IsOwnerOrAdmin(a, props[p].owner)
                => /\ PropertyDestroy(a, p)
                      => resp' = NO_CONTENT /\ p \notin DOMAIN props'
                   /\ \A active \in BOOLEAN, vstatus \in {Absent, VERIFIED, REJECTED} :
                         PropertyUpdate(a, p, active, vstatus, TRUE)
                         => resp' = OK /\ props'[p].is_active = active
       /\ \A p \in (DOMAIN props) \cap (DOMAIN props') :
             props'[p].owner = props[p].owner]_vars

(* ------------------------- compliance handlers ------------------------- *)
\* the values of PropertyCompliance.compliance_status and of
\* PropertyRequirementCheck.status (pass/fail)
COMPLIANT == "compliant"
NON_COMPLIANT == "non_compliant"
CHECK_PASSED == "passed"
CHECK_FAILED == "failed"

\* a compliance record of property p, not yet reviewed
Compliance0(p) == [property |-> p, compliance_status |-> PENDING, reviewed_by |-> Null]

\* PropertyComplianceViewSet.get_queryset and PropertyRequirementCheckViewSet.get_queryset
ComplianceQueryset(a) ==
    IF users[a].is_staff \/ users[a].role = GOVERNMENT THEN DOMAIN compliance
    ELSE IF users[a].role \in {PROPERTY_OWNER, REAL_ESTATE_FIRM}
    THEN {c \in DOMAIN compliance : props[compliance[c].property].owner = a}
    ELSE {c \in DOMAIN compliance :
             props[compliance[c].property].verification_status = VERIFIED}

CheckQueryset(a) ==
    {k \in DOMAIN checks : checks[k].property_compliance \in ComplianceQueryset(a)}

\* the permission of update/partial_update on both viewsets
ManagesCompliance(a) == IsAuthenticated(a) /\ (IsGovernmentAgency(a) \/ IsAdmin(a))

\* POST /property-compliance/ : IsAuthenticated only. property is read-only and
\* property_id is looked up among the compliance records: a pk that is none of
\* them is refused; with one, or with no property_id (pk = Null), the INSERT
\* fails (a PropertyCompliance where a Property is due, or no property)
PropertyComplianceCreate(a, pk) ==
    /\ resp' = IF ~IsAuthenticated(a) THEN UNAUTHORIZED
               ELSE IF pk # Null /\ pk \notin DOMAIN compliance THEN BAD_REQUEST
               ELSE SERVER_ERROR
    /\ UNCHANGED <<userVars, propVars, payVars, now, inflight>>

\* PropertyComplianceSerializer.update: reviewed_by is the caller
PropertyComplianceSerializerUpdate(instance, status, a) ==
    [instance EXCEPT !.compliance_status = IF status = Absent THEN @ ELSE status,
                     !.reviewed_by = a]

\* PUT/PATCH /property-compliance/{c}/
PropertyComplianceUpdate(a, c, status) ==
    /\ IF ~ManagesCompliance(a)
       THEN resp' = Denied(a) /\ UNCHANGED compliance
       ELSE IF c \notin ComplianceQueryset(a)
       THEN resp' = NOT_FOUND /\ UNCHANGED compliance
       ELSE /\ resp' = OK
            /\ compliance' = [compliance EXCEPT
                   ![c] = PropertyComplianceSerializerUpdate(compliance[c], status, a)]
    /\ UNCHANGED <<userVars, props, leads, messages, checks, payVars, now, inflight>>

\* POST /requirement-checks/ : IsAuthenticated only. property_compliance is
\* looked up among all compliance records, status is a writable field, and
\* checked_by is not set by create
RequirementCheckCreate(a, c, status) ==
    /\ IF ~IsAuthenticated(a)
       THEN resp' = UNAUTHORIZED /\ UNCHANGED checks
       ELSE IF c \notin DOMAIN compliance
       THEN resp' = BAD_REQUEST /\ UNCHANGED checks
       ELSE /\ Cardinality(DOMAIN checks) < MaxChecks
            /\ resp' = CREATED
            /\ checks' = checks @@
                   ((CHOOSE k \in 1..MaxChecks : k \notin DOMAIN checks) :>
                      [property_compliance |-> c,
                       status |-> IF status = Absent THEN PENDING ELSE status,
                       checked_by |-> Null])
    /\ UNCHANGED <<userVars, props, leads, messages, compliance, payVars, now, inflight>>

\* PropertyRequirementCheckSerializer.update: checked_by is the caller
PropertyRequirementCheckSerializerUpdate(instance, status, a) ==
    [instance EXCEPT !.status = IF status = Absent THEN @ ELSE status,
                     !.checked_by = a]

\* PUT/PATCH /requirement-checks/{k}/
RequirementCheckUpdate(a, k, status) ==
    /\ IF ~ManagesCompliance(a)
       THEN resp' = Denied(a) /\ UNCHANGED checks
       ELSE IF k \notin CheckQueryset(a)
       THEN resp' = NOT_FOUND /\ UNCHANGED checks
       ELSE /\ resp' = OK
            /\ checks' = [checks EXCEPT
                   ![k] = PropertyRequirementCheckSerializerUpdate(checks[k], status, a)]
    /\ UNCHANGED <<userVars, props, leads, messages, compliance, payVars, now, inflight>>

\* DELETE /requirement-checks/{k}/ : IsAuthenticated & IsAdmin
RequirementCheckDestroy(a, k) ==
    /\ IF ~(IsAuthenticated(a) /\ IsAdmin(a))
       THEN resp' = Denied(a) /\ UNCHANGED checks
       ELSE IF k \notin CheckQueryset(a)
       THEN resp' = NOT_FOUND /\ UNCHANGED checks
       ELSE resp' = NO_CONTENT /\ checks' = Remove(checks, {k})
    /\ UNCHANGED <<userVars, props, leads, messages, compliance, payVars, now, inflight>>

\* the users and property of the fixture, the property under a compliance
\* record that awaits its review
InitCompliance ==
    /\ users = UsersFixture(FALSE, FALSE)
    /\ nextUserId = 5
    /\ kyc = << >>
    /\ InitProps
    /\ InitPayEmpty /\ InitResp /\ now = 1
    /\ inflight = << >> /\ leads = << >> /\ messages = << >> /\ subs = << >>
    /\ compliance = [c \in 1..MaxProps |-> Compliance0(c)]
    /\ checks = << >>

ComplianceStatusInputs == {Absent, COMPLIANT, NON_COMPLIANT}
CheckStatusInputs == {Absent, CHECK_PASSED, CHECK_FAILED}

NextCompliance ==
    \/ \E a \in Actors, pk \in 0..(MaxProps + 1) : PropertyComplianceCreate(a, pk)
    \/ \E a \in Actors, c \in 1..MaxProps, status \in ComplianceStatusInputs :
          PropertyComplianceUpdate(a, c, status)
    \/ \E a \in Actors, c \in 0..MaxProps, status \in CheckStatusInputs :
          RequirementCheckCreate(a, c, status)
    \/ \E a \in Actors, k \in 1..MaxChecks, status \in CheckStatusInputs :
          RequirementCheckUpdate(a, k, status)
    \/ \E a \in Actors, k \in 1..MaxChecks : RequirementCheckDestroy(a, k)

SpecCompliance == InitCompliance /\ [][NextCompliance]_vars

(* ---------------------------- claims: compliance ----------------------- *)
\* C22: a create or an update of a compliance record or of a requirement check
\* requested by an authenticated actor who is neither admin nor government is
\* answered forbidden and changes no compliance record and no requirement check.
C22_ComplianceByManagersOnly ==
    [][\A a \in DOMAIN users :
          /\ ~ManagesCompliance(a)
          /\ \/ \E pk \in 0..(MaxProps + 1) : PropertyComplianceCreate(a, pk)
             \/ \E c \in 1..MaxProps, status \in ComplianceStatusInputs :
                   PropertyComplianceUpdate(a, c, status)
             \/ \E c \in 0..MaxProps, status \in CheckStatusInputs :
                   RequirementCheckCreate(a, c, status)
             \/ \E k \in 1..MaxChecks, status \in CheckStatusInputs :
                   RequirementCheckUpdate(a, k, status)
          => /\ resp' = FORBIDDEN
             /\ compliance' = compliance
             /\ checks' = checks]_vars

(* ---------------------- claims: invoices and payments ------------------ *)
\* every invoice's payment exists, and no payment is the payment of two invoices
LinkOneToOne ==
    \A i \in DOMAIN invoices :
        invoices[i].payment # Null
        => /\ invoices[i].payment \in DOMAIN payments
           /\ \A j \in DOMAIN invoices :
                 invoices[j].payment = invoices[i].payment => j = i

\* C23 as stated: the link of an invoice is set at most once, so that an
\* invoice never references a second payment.  Payments come into being only
\* by generate_payment linking one to an invoice (nextPaymentId - 1 counts
\* them), so no more payments are ever handed out than there are invoices.
C23_NeverAnotherPayment == nextPaymentId - 1 <= MaxInvoices

\* C23: generate_payment on an invoice that has a payment is answered as a bad
\* request, creates no payment and leaves the invoice as it was; every invoice
\* references at most one payment, which exists, and no payment is referenced
\* by two invoices; the payment of an invoice changes only by being cleared when
\* that payment is deleted, and an invoice without payment is linked only to a
\* payment created in the same step.
C23_LinkSetOnce ==
    /\ []LinkOneToOne
    /\ [][/\ \A a \in DOMAIN users, i \in DOMAIN invoices, payment_method \in BOOLEAN :
              /\ i \in InvoiceQueryset(a)
              /\ invoices[i].payment # Null
              /\ GeneratePayment(a, i, payment_method)
              => /\ resp' = BAD_REQUEST
                 /\ payments' = payments
                 /\ invoices' = invoices
          /\ \A i \in (DOMAIN invoices) \cap (DOMAIN invoices') :
                invoices'[i].payment # invoices[i].payment
                => IF invoices[i].payment # Null
                   THEN /\ invoices'[i].payment = Null
                        /\ invoices[i].payment \notin DOMAIN payments'
                   ELSE /\ invoices'[i].payment \notin DOMAIN payments
                        /\ invoices'[i].payment \in DOMAIN payments']_vars

\* the invoice's first payment was deleted and the invoice now references a
\* second one
C23_Witness ==
    /\ 1 \in DOMAIN invoices
    /\ invoices[1].payment = 2
    /\ 1 \notin DOMAIN payments

(* ------------------------------ save hooks ----------------------------- *)
\* invoice.save() and subscription.save() on a stored row
InvoiceSaveRow(i) ==
    /\ i \in DOMAIN invoices
    /\ invoices' = [invoices EXCEPT ![i] = InvoiceSave(invoices[i])]
    /\ UNCHANGED <<userVars, propVars, payments, nextPaymentId, txns, subs, now, resp, inflight>>

SubscriptionSaveRow(s) ==
    /\ s \in DOMAIN subs
    /\ subs' = [subs EXCEPT ![s] = SubscriptionSave(subs[s])]
    /\ UNCHANGED <<userVars, propVars, payments, nextPaymentId, txns, invoices, now, resp, inflight>>

\* status and date assigned to the row, then save()
InvoiceStore(i, status, due_date) ==
    /\ i \in DOMAIN invoices
    /\ invoices' = [invoices EXCEPT
           ![i] = InvoiceSave([invoices[i] EXCEPT !.status = status, !.due_date = due_date])]
    /\ UNCHANGED <<userVars, propVars, payments, nextPaymentId, txns, subs, now, resp, inflight>>

SubscriptionStore(s, status, end_date) ==
    /\ s \in DOMAIN subs
    /\ subs' = [subs EXCEPT
           ![s] = SubscriptionSave([subs[s] EXCEPT !.status = status, !.end_date = end_date])]
    /\ UNCHANGED <<userVars, propVars, payments, nextPaymentId, txns, invoices, now, resp, inflight>>

\* one invoice and one subscription of the buyer, with any status and any date
\* from today on
InitSave ==
    /\ users = UsersFixture(FALSE, TRUE)
    /\ nextUserId = 5
    /\ kyc = << >>
    /\ InitProps
    /\ payments = << >> /\ nextPaymentId = 1 /\ txns = << >>
    /\ now = 1
    /\ \E status \in InvoiceStatusInputs, due_date \in 1..MaxTime :
          invoices = (1 :> [Invoice0(1, 4) EXCEPT !.status = status, !.due_date = due_date])
    /\ \E status \in SubscriptionStatuses, end_date \in 1..MaxTime :
          subs = (1 :> [Subscription0(4, 1, end_date) EXCEPT !.status = status])
    /\ InitResp
    /\ inflight = << >> /\ leads = << >>
    /\ messages = << >> /\ compliance = << >> /\ checks = << >>

NextSave ==
    \/ InvoiceSaveRow(1)
    \/ SubscriptionSaveRow(1)
    \/ \E status \in InvoiceStatusInputs, due_date \in 0..MaxTime :
          InvoiceStore(1, status, due_date)
    \/ \E status \in SubscriptionStatuses, end_date \in 0..MaxTime :
          SubscriptionStore(1, status, end_date)
    \/ Tick

SpecSave == InitSave /\ [][NextSave]_vars

(* ----------------------------- claims: save hooks ---------------------- *)
\* C24: a save changes the status of an invoice only from PENDING to OVERDUE
\* and only when due_date is before today, and that of a subscription only
\* from ACTIVE to EXPIRED and only when end_date is before today; right after
\* its save no invoice is PENDING with a past due_date and no subscription is
\* ACTIVE with a past end_date; a PAID, CANCELLED, OVERDUE or EXPIRED status is
\* saved as it is.
C24_SaveMovesOneWay ==
    [][/\ \A status \in InvoiceStatusInputs, due_date \in 0..MaxTime :
             InvoiceStore(1, status, due_date)
             => /\ invoices'[1].status # status
                   => status = PENDING /\ invoices'[1].status = OVERDUE /\ due_date < now
                /\ ~(invoices'[1].status = PENDING /\ invoices'[1].due_date < now)
       /\ InvoiceSaveRow(1)
             => /\ invoices'[1].status # invoices[1].status
                   => /\ invoices[1].status = PENDING /\ invoices'[1].status = OVERDUE
                      /\ invoices[1].due_date < now
                /\ ~(invoices'[1].status = PENDING /\ invoices'[1].due_date < now)
       /\ \A status \in SubscriptionStatuses, end_date \in 0..MaxTime :
             SubscriptionStore(1, status, end_date)
             => /\ subs'[1].status # status
                   => status = ACTIVE /\ subs'[1].status = EXPIRED /\ end_date < now
                /\ ~(subs'[1].status = ACTIVE /\ subs'[1].end_date < now)
       /\ SubscriptionSaveRow(1)
             => /\ subs'[1].status # subs[1].status
                   => /\ subs[1].status = ACTIVE /\ subs'[1].status = EXPIRED
                      /\ subs[1].end_date < now
                /\ ~(subs'[1].status = ACTIVE /\ subs'[1].end_date < now)]_vars

\* a day has passed and the saves have moved the invoice due yesterday to
\* OVERDUE and the subscription ended yesterday to EXPIRED
C24_Witness ==
    /\ now = 2
    /\ invoices[1].status = OVERDUE /\ invoices[1].due_date = 1
    /\ subs[1].status = EXPIRED /\ subs[1].end_date = 1

C26_CompletedOnlyByAdmin ==
    [][\A a \in DOMAIN users :
          /\ ~IsAdmin(a)
          /\ \/ \E pk \in 1..MaxPayments : PaymentCreate(a, pk)
             \/ \E x \in 1..MaxPayments, status \in PaymentStatusInputs :
                   PaymentUpdate(a, x, status)
             \/ \E x \in 1..MaxPayments : VerifyPayment(a, x)
          => /\ \A x \in DOMAIN payments' :
                   payments'[x].status = COMPLETED
                   => x \in DOMAIN payments /\ payments[x].status = COMPLETED
             /\ \A i \in DOMAIN invoices' :
                   invoices'[i].status = PAID => invoices[i].status = PAID]_vars

\* C27: in every reachable state an invoice whose status is PAID is linked to a
\* payment whose status is COMPLETED.
C27_PaidHasCompletedPayment ==
    \A i \in DOMAIN invoices :
        invoices[i].status = PAID
        => /\ invoices[i].payment \in DOMAIN payments
           /\ payments[invoices[i].payment].status = COMPLETED

(* --------------------------- claims: messages -------------------------- *)
\* the sender of message m is a party of the message's lead (its requesting
\* actor or the owner of its property) or an admin, and the receiver is the
\* other party
PartiesOfLead(m) ==
    LET l == leads[m.lead]
        owner == props[l.property].owner
    IN  /\ m.sender \in {l.user, owner} \/ IsAdmin(m.sender)
        /\ m.receiver = IF m.sender = l.user THEN owner ELSE l.user

\* C28: every stored message belongs to a lead of which its sender is a party
\* or an admin and its receiver the other party, also when the lead named in
\* the body differs from the lead of the path; a refused request stores nothing.
C28_MessageBetweenLeadParties ==
    /\ [](\A m \in DOMAIN messages : PartiesOfLead(messages[m]))
    /\ [][resp' \notin {CREATED, OK} => messages' = messages]_vars

(* ------------------- claims: overlapping generate_payment -------------- *)
\* every generate_payment request that was started has been answered
AllAnswered == \A r \in DOMAIN inflight : inflight[r].pc = "done"

\* C29: once the generate_payment requests for an invoice have been answered,
\* in whatever order their statements ran, at most one payment exists for the
\* invoice and every payment is referenced by an invoice.
C29_OnePaymentPerInvoice ==
    AllAnswered
    => /\ Cardinality(DOMAIN payments) <= Cardinality(DOMAIN invoices)
       /\ \A x \in DOMAIN payments : InvoicesOf(x) # {}

(* ----------------------------- claims: users --------------------------- *)
\* C30: an update of user u requested by an authenticated caller who is not an
\* admin and is not u is rejected and leaves u as it was, and no update
\* changes the role of any user.
C30_OnlyOwnRecord ==
    [][\A a \in DOMAIN users, u \in DOMAIN users, valid \in BOOLEAN,
          address \in Addresses :
          UserUpdate(a, u, valid, address)
          => /\ ~IsAdmin(a) /\ a # u => resp' # OK /\ users'[u] = users[u]
             /\ \A v \in DOMAIN users : users'[v].role = users[v].role]_vars
====
